---- MODULE Spec2Model ----
(***************************************************************************)
(* The resource-coordination core of the OpenSky peer node                 *)
(* (src/p2p-node/src/main.rs): the ledger `node` behind Arc<Mutex<..>>,    *)
(* the command processor task, the advertisement task, the HTTP status     *)
(* handler and the control loop of main.                                   *)
(***************************************************************************)
EXTENDS Integers, Sequences, FiniteSets, TLC

(***************************************************************************)
(* Bounds of the model.                                                    *)
(***************************************************************************)
MaxInbound == 2      \* fabric messages delivered to inject_event
MaxAux == 1          \* timer expiries, HTTP requests and operator lines, together

\* The configurations and the requests tried.
CpuConfigs == {2}            \* OPENSKY_MAX_CPU_PERCENT
StorageConfigs == {2}        \* OPENSKY_MAX_STORAGE_GB
CoreInputs == {1, 2, 3}      \* cpu_cores of a TaskRequest

(***************************************************************************)
(* Program constants.                                                      *)
(***************************************************************************)
GiB == 1073741824            \* 1024 * 1024 * 1024
SampledMemory == 2048        \* mem_info().total as u32 / 2, sampled once
DefaultBandwidth == 50       \* OPENSKY_MAX_BANDWIDTH_MBPS default

\* A 32-bit value is kept exact as two 16-bit limbs <<hi, lo>>.
Limb == 2^16

LocalPeerId == "self"
TaskIds == {"t1", "t2"}
FileIds == {"f1"}

(***************************************************************************)
(* u64 size_bytes, kept exact: size_bytes = (q_hi * 2^16 + q_lo) * 2^30    *)
(* + rem with q_hi < 2^18, q_lo < 2^16, rem < 2^30.                        *)
(***************************************************************************)
Bytes(qh, ql, r) == [q_hi |-> qh, q_lo |-> ql, rem |-> r]

SizeInputs ==
    { Bytes(0, 0, 0),                     \* 0
      Bytes(0, 0, GiB - 1),               \* 1 GiB - 1
      Bytes(0, 1, 0),                     \* 1 GiB
      Bytes(0, 1, 1),                     \* 1 GiB + 1
      Bytes(0, 8, 0),                     \* 8 GiB
      Bytes(Limb - 1, Limb - 1, 5),       \* (2^32 - 1) GiB + 5
      Bytes(Limb, 0, 0) }                 \* 2^32 GiB = 2^62

(***************************************************************************)
(* enum OpenSkyCommand                                                     *)
(***************************************************************************)
ResourceOffer(cpu, mem, sto, bw, nid) ==
    [type |-> "ResourceOffer", cpu_cores |-> cpu, memory_mb |-> mem,
     storage_gb |-> sto, bandwidth_mbps |-> bw, node_id |-> nid]

TaskRequest(t, c) ==
    [type |-> "TaskRequest", task_id |-> t, docker_image |-> "image",
     cpu_cores |-> c, memory_mb |-> 0, command |-> <<>>]

TaskResult(t, ok, data) ==
    [type |-> "TaskResult", task_id |-> t, success |-> ok, result_data |-> data]

StorageRequest(f, s) ==
    [type |-> "StorageRequest", file_id |-> f, size_bytes |-> s]

StorageOffer(f, nid, a) ==
    [type |-> "StorageOffer", file_id |-> f, node_id |-> nid, available |-> a]

NoCommand == [type |-> "None"]

\* The commands a peer sends in the model.
PeerCommands ==
    { TaskRequest(t, c) : t \in TaskIds, c \in CoreInputs }
    \cup { StorageRequest(f, s) : f \in FileIds, s \in SizeInputs }
    \cup { ResourceOffer(1, SampledMemory, 1, DefaultBandwidth, "peer") }
    \cup { TaskResult("t1", TRUE, "Task completed successfully") }
    \cup { StorageOffer("f1", "peer", FALSE) }

CommandTypes ==
    {"ResourceOffer", "TaskRequest", "TaskResult", "StorageRequest", "StorageOffer"}

(***************************************************************************)
(* serde_json: to_string wraps a command into a JSON text, from_slice      *)
(* yields the command of a JSON text of a known variant, an error else.    *)
(***************************************************************************)
Encode(c) == [json |-> c]

DecodeError == [type |-> "DecodeError"]

\* A decoder that takes any JSON object for a command.
DecodeAnyJson(p) ==
    IF "json" \in DOMAIN p THEN p.json ELSE DecodeError

\* serde_json::from_slice::<OpenSkyCommand>(&message.data)
Decode(p) ==
    IF "json" \in DOMAIN p /\ p.json.type \in CommandTypes
    THEN p.json
    ELSE DecodeError

Malformed == { [raw |-> "garbage"], [json |-> [type |-> "Unknown"]] }

Payloads == { Encode(c) : c \in PeerCommands } \cup Malformed

(***************************************************************************)
(* let size_gb = (size_bytes / (1024 * 1024 * 1024)) as u32 + 1;           *)
(***************************************************************************)
\* size_bytes / 2^30: the 34-bit quotient <<hi (18 bits), lo (16 bits)>>.
DivGiB(s) == <<s.q_hi, s.q_lo>>

\* `as u32` keeps the low 32 bits of the quotient.
AsU32(q) == <<q[1] % Limb, q[2]>>

\* x + 1 on u32 overflows exactly at u32::MAX.
U32IncOverflows(x) == x[1] = Limb - 1 /\ x[2] = Limb - 1

\* x + 1 on u32, wrapping (what a build without overflow checks computes).
U32Inc(x) ==
    IF x[2] < Limb - 1 THEN <<x[1], x[2] + 1>> ELSE <<(x[1] + 1) % Limb, 0>>

SizeGbOverflows(s) == U32IncOverflows(AsU32(DivGiB(s)))

\* A size_gb computed without the + 1.
SizeGbWithoutIncrement(s) == AsU32(DivGiB(s))

SizeGb(s) == U32Inc(AsU32(DivGiB(s)))

\* The ledger's available_storage stays below 2^31 in the model (it starts at
\* most at a value of StorageConfigs and only decreases), so it is a plain integer; a u32
\* with its top bit set is larger than any such value.
U32FitsInt(x) == x[1] < Limb \div 2

U32Val(x) == x[1] * Limb + x[2]

\* A storage check that is off by one.
StorageSufficientOffByOne(avail, size_gb) ==
    U32FitsInt(size_gb) /\ avail + 1 >= U32Val(size_gb)

\* node.available_storage >= size_gb
StorageSufficient(avail, size_gb) == U32FitsInt(size_gb) /\ avail >= U32Val(size_gb)

\* A CPU check that always passes.
CpuSufficientAlways(avail, cpu_cores) == TRUE

\* node.available_cpu >= cpu_cores
CpuSufficient(avail, cpu_cores) == avail >= cpu_cores

\* A release that adds nothing back.
ReleasedNothing(avail, cpu_cores) == avail

\* node.available_cpu += cpu_cores
Released(avail, cpu_cores) == avail + cpu_cores

VARIABLES
    max_cpu_percent,   \* OPENSKY_MAX_CPU_PERCENT as parsed
    max_storage_gb,    \* OPENSKY_MAX_STORAGE_GB as parsed
    overflow_checks,   \* whether the build panics on integer overflow
    node,              \* the OpenSkyNode behind the mutex
    lock,              \* the mutex: "free", its holder, or "poisoned"
    queue,             \* the unbounded channel response_sender -> response_rcv
    outbox,            \* payloads published on the floodsub topic, in order
    proc_pc,           \* position of the command processor task
    cmd,               \* the command of the processor's current iteration
    can_store,         \* the processor's local can_store of that iteration
    adv_pc,            \* position of the advertisement task
    resource_offer,    \* the advertisement task's local resource_offer
    running,           \* main's loop has not been left
    delivered,         \* fabric messages delivered so far
    aux,               \* timer expiries, HTTP requests, operator lines and
                       \* mDNS events so far
    http_reply,        \* the last reply of GET /api/node
    console,           \* the last operator command's output
    task_cpu,          \* per entry of node.tasks, the cpu_cores deducted for it
    file_gb,           \* per entry of node.stored_files, the size_gb deducted
    burst,             \* [n, c]: so far n commands were sent, all TaskRequests
                       \* of c cpu_cores, all before any was taken; or NoBurst
    partial_view       \* the peers in floodsub's partial view

vars ==
    <<max_cpu_percent, max_storage_gb, overflow_checks, node, lock, queue,
      outbox, proc_pc, cmd, can_store, adv_pc, resource_offer, running,
      delivered, aux, http_reply, console, task_cpu, file_gb, burst,
      partial_view>>

config == <<max_cpu_percent, max_storage_gb, overflow_checks>>
procVars == <<proc_pc, cmd, can_store>>
advVars == <<adv_pc, resource_offer>>
viewVars == <<aux, http_reply, console>>
ghostVars == <<task_cpu, file_gb>>

NoReply == [kind |-> "none"]
NoBurst == [n |-> 0, c |-> -1]

\* let node = Arc::new(Mutex::new(OpenSkyNode { .. }))
Init ==
    /\ max_cpu_percent \in CpuConfigs
    /\ max_storage_gb \in StorageConfigs
    /\ overflow_checks \in BOOLEAN
    /\ node = [node_id |-> LocalPeerId,
               available_cpu |-> max_cpu_percent,
               available_memory |-> SampledMemory,
               available_storage |-> max_storage_gb,
               available_bandwidth |-> DefaultBandwidth,
               peers |-> {},
               tasks |-> <<>>,
               stored_files |-> <<>>]
    /\ lock = "free"
    /\ queue = <<>>
    /\ outbox = <<>>
    /\ proc_pc = "recv"
    /\ cmd = NoCommand
    /\ can_store = FALSE
    /\ adv_pc = "sleep"
    /\ resource_offer = NoCommand
    /\ running = TRUE
    /\ delivered = 0
    /\ aux = 0
    /\ http_reply = NoReply
    /\ console = NoReply
    /\ task_cpu = <<>>
    /\ file_gb = <<>>
    /\ burst = [n |-> 0, c |-> 0]
    /\ partial_view = {}

(***************************************************************************)
(* Helpers on the ledger.                                                  *)
(***************************************************************************)
\* A retain that removes nothing.
RetainAll(tasks, task_id) == tasks

\* node.tasks.retain(|t| t != &task_id)
Retain(tasks, task_id) == SelectSeq(tasks, LAMBDA t : t # task_id)

\* The same retain on the per-entry record of deducted cpu_cores.
RetainCpu(entries, task_id) == SelectSeq(entries, LAMBDA e : e.task_id # task_id)

\* The burst after command d is sent with q the commands waiting.
Grown(b, d, q) ==
    IF /\ b # NoBurst
       /\ d.type = "TaskRequest"
       /\ Len(q) = b.n
       /\ (b.n = 0 \/ d.cpu_cores = b.c)
    THEN [n |-> b.n + 1, c |-> d.cpu_cores]
    ELSE NoBurst

\* The fields an advertisement is built from.
Snapshot(n) ==
    ResourceOffer(n.available_cpu, n.available_memory, n.available_storage,
                  n.available_bandwidth, n.node_id)

(***************************************************************************)
(* NetworkBehaviourEventProcess<FloodsubEvent>::inject_event, driven by    *)
(* swarm.select_next_some() in main's loop.                                *)
(***************************************************************************)
FabricMessage(p) ==
    /\ running
    /\ delivered < MaxInbound
    /\ delivered' = delivered + 1
    /\ IF Decode(p) # DecodeError
       THEN /\ queue' = IF proc_pc # "dead" THEN Append(queue, Decode(p)) ELSE queue
            /\ burst' = Grown(burst, Decode(p), queue)
       ELSE UNCHANGED <<queue, burst>>
    /\ UNCHANGED <<config, partial_view, node, lock, outbox, procVars, advVars, running,
                   viewVars, ghostVars>>

(***************************************************************************)
(* mDNS events, handled by the same behaviour.                             *)
(***************************************************************************)
PeerIds == {"p1"}

\* MdnsEvent::Discovered(peers) => floodsub.add_node_to_partial_view(peer_id)
MdnsDiscovered(p) ==
    /\ running
    /\ aux < MaxAux
    /\ aux' = aux + 1
    /\ partial_view' = partial_view \cup {p}
    /\ UNCHANGED <<config, node, lock, queue, outbox, procVars, advVars,
                   running, delivered, http_reply, console, ghostVars, burst>>

\* MdnsEvent::Expired(peers) => floodsub.remove_node_from_partial_view(&peer_id)
MdnsExpired(p) ==
    /\ running
    /\ aux < MaxAux
    /\ aux' = aux + 1
    /\ partial_view' = partial_view \ {p}
    /\ UNCHANGED <<config, node, lock, queue, outbox, procVars, advVars,
                   running, delivered, http_reply, console, ghostVars, burst>>

(***************************************************************************)
(* The command processor task.                                             *)
(***************************************************************************)
\* A match whose default arm answers with an offer.
DispatchAnswering(c) ==
    CASE c.type = "TaskRequest" -> "task_admit"
      [] c.type = "StorageRequest" -> "store_reserve"
      [] OTHER -> "store_publish"

\* The arm the match on the command takes.
Dispatch(c) ==
    CASE c.type = "TaskRequest" -> "task_admit"
      [] c.type = "StorageRequest" -> "store_reserve"
      [] OTHER -> "recv"

\* while let Some(command) = response_rcv.recv().await { match command {
ProcRecv ==
    /\ running
    /\ proc_pc = "recv"
    /\ queue # <<>>
    /\ queue' = Tail(queue)
    /\ proc_pc' = Dispatch(Head(queue))
    /\ cmd' = IF Dispatch(Head(queue)) = "recv" THEN NoCommand ELSE Head(queue)
    /\ UNCHANGED <<config, partial_view, node, lock, outbox, can_store, advVars, running,
                   delivered, viewVars, ghostVars, burst>>

\* let mut node = node.lock().unwrap(); if node.available_cpu >= cpu_cores {
\*     node.available_cpu -= cpu_cores;
TaskAdmit ==
    /\ running
    /\ proc_pc = "task_admit"
    /\ lock = "free"
    /\ IF CpuSufficient(node.available_cpu, cmd.cpu_cores)
       THEN /\ node' = [node EXCEPT !.available_cpu = @ - cmd.cpu_cores]
            /\ lock' = "proc"
            /\ proc_pc' = "task_push"
            /\ cmd' = cmd
       ELSE /\ node' = node
            /\ lock' = "free"
            /\ proc_pc' = "recv"
            /\ cmd' = NoCommand
    /\ UNCHANGED <<config, partial_view, queue, outbox, can_store, advVars, running,
                   delivered, viewVars, ghostVars, burst>>

\* The push with the guard kept alive across the execution.
TaskPushHoldingLock ==
    /\ running
    /\ proc_pc = "task_push"
    /\ node' = [node EXCEPT !.tasks = Append(@, cmd.task_id)]
    /\ task_cpu' = Append(task_cpu, [task_id |-> cmd.task_id,
                                     cpu_cores |-> cmd.cpu_cores])
    /\ proc_pc' = "task_exec"
    /\ UNCHANGED <<config, partial_view, lock, queue, outbox, cmd, can_store, advVars,
                   running, delivered, viewVars, file_gb, burst>>

\*     node.tasks.push(task_id.clone()); true }   (the guard is dropped)
TaskPush ==
    /\ running
    /\ proc_pc = "task_push"
    /\ node' = [node EXCEPT !.tasks = Append(@, cmd.task_id)]
    /\ task_cpu' = Append(task_cpu, [task_id |-> cmd.task_id,
                                     cpu_cores |-> cmd.cpu_cores])
    /\ lock' = "free"
    /\ proc_pc' = "task_exec"
    /\ UNCHANGED <<config, partial_view, queue, outbox, cmd, can_store, advVars, running,
                   delivered, viewVars, file_gb, burst>>

\* An execution whose sleep never completes.
TaskExecNeverEnds ==
    /\ running
    /\ proc_pc = "task_exec"
    /\ UNCHANGED vars

\* tokio::time::sleep(Duration::from_secs(2)).await
TaskExec ==
    /\ running
    /\ proc_pc = "task_exec"
    /\ proc_pc' = "task_publish"
    /\ UNCHANGED <<config, partial_view, node, lock, queue, outbox, cmd, can_store, advVars,
                   running, delivered, viewVars, ghostVars, burst>>

\* let json = serde_json::to_string(&result)...; floodsub.publish(topic, json)
TaskPublish ==
    /\ running
    /\ proc_pc = "task_publish"
    /\ outbox' = Append(outbox,
           Encode(TaskResult(cmd.task_id, TRUE, "Task completed successfully")))
    /\ proc_pc' = "task_release"
    /\ UNCHANGED <<config, partial_view, node, lock, queue, cmd, can_store, advVars,
                   running, delivered, viewVars, ghostVars, burst>>

\* let mut node = node.lock().unwrap(); node.available_cpu += cpu_cores;
TaskRelease ==
    /\ running
    /\ proc_pc = "task_release"
    /\ lock = "free"
    /\ node' = [node EXCEPT !.available_cpu = Released(@, cmd.cpu_cores)]
    /\ lock' = "proc"
    /\ proc_pc' = "task_retain"
    /\ UNCHANGED <<config, partial_view, queue, outbox, cmd, can_store, advVars, running,
                   delivered, viewVars, ghostVars, burst>>

\* node.tasks.retain(|t| t != &task_id);   (the guard is dropped)
TaskRetain ==
    /\ running
    /\ proc_pc = "task_retain"
    /\ node' = [node EXCEPT !.tasks = Retain(@, cmd.task_id)]
    /\ task_cpu' = RetainCpu(task_cpu, cmd.task_id)
    /\ lock' = "free"
    /\ proc_pc' = "recv"
    /\ cmd' = NoCommand
    /\ UNCHANGED <<config, partial_view, queue, outbox, can_store, advVars, running,
                   delivered, viewVars, file_gb, burst>>

\* let mut node = node.lock().unwrap(); let size_gb = ... + 1;
\* overflow of the + 1 in a build with overflow checks: the task panics
\* with the guard alive, which poisons the mutex.
StoragePanic ==
    /\ running
    /\ proc_pc = "store_reserve"
    /\ lock = "free"
    /\ SizeGbOverflows(cmd.size_bytes)
    /\ overflow_checks
    /\ lock' = "poisoned"
    /\ proc_pc' = "dead"
    /\ UNCHANGED <<config, partial_view, node, queue, outbox, cmd, can_store, advVars,
                   running, delivered, viewVars, ghostVars, burst>>

\* if node.available_storage >= size_gb { node.available_storage -= size_gb;
StorageReserve ==
    /\ running
    /\ proc_pc = "store_reserve"
    /\ lock = "free"
    /\ ~(SizeGbOverflows(cmd.size_bytes) /\ overflow_checks)
    /\ LET size_gb == SizeGb(cmd.size_bytes) IN
       IF StorageSufficient(node.available_storage, size_gb)
       THEN /\ node' = [node EXCEPT !.available_storage = @ - U32Val(size_gb)]
            /\ lock' = "proc"
            /\ proc_pc' = "store_push"
            /\ can_store' = can_store
       ELSE /\ node' = node
            /\ lock' = "free"
            /\ proc_pc' = "store_publish"
            /\ can_store' = FALSE
    /\ UNCHANGED <<config, partial_view, queue, outbox, cmd, advVars, running, delivered,
                   viewVars, ghostVars, burst>>

\*     node.stored_files.push(file_id.clone()); true }   (the guard is dropped)
StoragePush ==
    /\ running
    /\ proc_pc = "store_push"
    /\ node' = [node EXCEPT !.stored_files = Append(@, cmd.file_id)]
    /\ file_gb' = Append(file_gb, U32Val(SizeGb(cmd.size_bytes)))
    /\ can_store' = TRUE
    /\ lock' = "free"
    /\ proc_pc' = "store_publish"
    /\ UNCHANGED <<config, partial_view, queue, outbox, cmd, advVars, running, delivered,
                   viewVars, task_cpu, burst>>

\* let offer = StorageOffer { file_id, node_id, available: can_store }; publish
StoragePublish ==
    /\ running
    /\ proc_pc = "store_publish"
    /\ outbox' = Append(outbox,
           Encode(StorageOffer(cmd.file_id, LocalPeerId, can_store)))
    /\ proc_pc' = "recv"
    /\ cmd' = NoCommand
    /\ can_store' = FALSE
    /\ UNCHANGED <<config, partial_view, node, lock, queue, advVars,
                   running, delivered, viewVars, ghostVars, burst>>

(***************************************************************************)
(* The advertisement task.                                                 *)
(***************************************************************************)
\* tokio::time::sleep(Duration::from_secs(60)).await
AdvTick ==
    /\ running
    /\ adv_pc = "sleep"
    /\ aux < MaxAux
    /\ aux' = aux + 1
    /\ adv_pc' = "snapshot"
    /\ UNCHANGED <<config, partial_view, node, lock, queue, outbox, procVars, resource_offer,
                   running, delivered, http_reply, console, ghostVars, burst>>

\* let resource_offer = { let node = node.lock().unwrap(); ResourceOffer {..} }
AdvSnapshot ==
    /\ running
    /\ adv_pc = "snapshot"
    /\ lock = "free"
    /\ resource_offer' = Snapshot(node)
    /\ adv_pc' = "publish"
    /\ UNCHANGED <<config, partial_view, node, lock, queue, outbox, procVars, running,
                   delivered, viewVars, ghostVars, burst>>

\* node.lock().unwrap() on the poisoned mutex panics the task.
AdvPanic ==
    /\ running
    /\ adv_pc = "snapshot"
    /\ lock = "poisoned"
    /\ adv_pc' = "dead"
    /\ UNCHANGED <<config, partial_view, node, lock, queue, outbox, procVars, resource_offer,
                   running, delivered, viewVars, ghostVars, burst>>

\* let json = serde_json::to_string(&resource_offer)...; floodsub.publish(..)
AdvPublish ==
    /\ running
    /\ adv_pc = "publish"
    /\ outbox' = Append(outbox, Encode(resource_offer))
    /\ adv_pc' = "sleep"
    /\ UNCHANGED <<config, partial_view, node, lock, queue, procVars, resource_offer,
                   running, delivered, viewVars, ghostVars, burst>>

(***************************************************************************)
(* GET /api/node                                                           *)
(***************************************************************************)
\* The JSON the handler builds with the guard alive.
NodeJson(n) ==
    [kind |-> "json", node_id |-> n.node_id,
     cpu |-> n.available_cpu,
     memory_mb |-> n.available_memory,
     storage_gb |-> n.available_storage,
     bandwidth_mbps |-> n.available_bandwidth,
     peers |-> Cardinality(n.peers),
     tasks |-> Len(n.tasks),
     files |-> Len(n.stored_files)]

\* A handler that reads the node without taking the lock.
HttpGetWithoutLock ==
    /\ running
    /\ aux < MaxAux
    /\ aux' = aux + 1
    /\ http_reply' = NodeJson(node)
    /\ UNCHANGED <<config, partial_view, node, lock, queue, outbox, procVars,
                   advVars, running, delivered, console, ghostVars, burst>>

\* let node = node_for_api.lock().unwrap(); warp::reply::json(..)
HttpGet ==
    /\ running
    /\ aux < MaxAux
    /\ lock # "proc"
    /\ aux' = aux + 1
    /\ http_reply' = IF lock = "poisoned" THEN [kind |-> "panic"] ELSE NodeJson(node)
    /\ UNCHANGED <<config, partial_view, node, lock, queue, outbox, procVars, advVars,
                   running, delivered, console, ghostVars, burst>>

(***************************************************************************)
(* main's loop: one line of operator input.                                *)
(***************************************************************************)
LockingLines == {"peers", "resources", "status"}
OperatorLines == {"help", "quit", "bogus"} \cup LockingLines

\* What the arm of `line` logs, read under the lock where the arm takes it.
Output(line, n) ==
    CASE line = "help" -> [kind |-> "help"]
      [] line = "peers" -> [kind |-> "peers", peers |-> Cardinality(n.peers)]
      [] line = "resources" ->
             [kind |-> "resources", cpu |-> n.available_cpu,
              memory_mb |-> n.available_memory,
              storage_gb |-> n.available_storage,
              bandwidth_mbps |-> n.available_bandwidth]
      [] line = "status" ->
             [kind |-> "status", node_id |-> n.node_id,
              peers |-> Cardinality(n.peers), tasks |-> Len(n.tasks),
              files |-> Len(n.stored_files)]
      [] OTHER -> [kind |-> "unknown", line |-> line]

\* Ok(Some(line)) with an arm that keeps the loop running.
OperatorLine(line) ==
    /\ running
    /\ aux < MaxAux
    /\ line # "quit"
    /\ line \in LockingLines => lock = "free"
    /\ aux' = aux + 1
    /\ console' = Output(line, node)
    /\ UNCHANGED <<config, partial_view, node, lock, queue, outbox, procVars, advVars,
                   running, delivered, http_reply, ghostVars, burst>>

\* "quit" => break
OperatorQuit ==
    /\ running
    /\ aux < MaxAux
    /\ aux' = aux + 1
    /\ running' = FALSE
    /\ UNCHANGED <<config, partial_view, node, lock, queue, outbox, procVars, advVars,
                   delivered, http_reply, console, ghostVars, burst>>

\* Ok(None) => break, Err(e) => break
OperatorEof ==
    /\ running
    /\ aux < MaxAux
    /\ aux' = aux + 1
    /\ running' = FALSE
    /\ UNCHANGED <<config, partial_view, node, lock, queue, outbox, procVars, advVars,
                   delivered, http_reply, console, ghostVars, burst>>

\* node.lock().unwrap() on the poisoned mutex panics main.
OperatorPanic(line) ==
    /\ running
    /\ aux < MaxAux
    /\ line \in LockingLines
    /\ lock = "poisoned"
    /\ aux' = aux + 1
    /\ running' = FALSE
    /\ console' = [kind |-> "panic"]
    /\ UNCHANGED <<config, partial_view, node, lock, queue, outbox, procVars,
                   advVars, delivered, http_reply, ghostVars, burst>>

Next ==
    \/ \E p \in Payloads : FabricMessage(p)
    \/ \E p \in PeerIds : MdnsDiscovered(p)
    \/ \E p \in PeerIds : MdnsExpired(p)
    \/ ProcRecv
    \/ TaskAdmit
    \/ TaskPush
    \/ TaskExec
    \/ TaskPublish
    \/ TaskRelease
    \/ TaskRetain
    \/ StoragePanic
    \/ StorageReserve
    \/ StoragePush
    \/ StoragePublish
    \/ AdvTick
    \/ AdvSnapshot
    \/ AdvPanic
    \/ AdvPublish
    \/ HttpGet
    \/ \E line \in OperatorLines : OperatorLine(line)
    \/ OperatorQuit
    \/ OperatorEof
    \/ \E line \in LockingLines : OperatorPanic(line)

Spec == Init /\ [][Next]_vars

(***************************************************************************)
(* The runtime keeps polling the spawned processor task: a step of the     *)
(* task arm that stays possible is taken (the sleep completes, the mutex   *)
(* it locks is only ever held by the processor itself across steps).       *)
(***************************************************************************)
FairSpec ==
    /\ Spec
    /\ WF_vars(TaskPush)
    /\ WF_vars(TaskExec)
    /\ WF_vars(TaskPublish)
    /\ WF_vars(TaskRelease)
    /\ WF_vars(TaskRetain)

(***************************************************************************)
(* The processor where serde_json::to_string may return Err: the expect    *)
(* on the Result panics the task, outside the block that holds the guard.  *)
(***************************************************************************)
\* serde_json::to_string(&result).expect("Failed to serialize") on Err
TaskEncodeFails ==
    /\ running
    /\ proc_pc = "task_publish"
    /\ proc_pc' = "dead"
    /\ UNCHANGED <<config, partial_view, node, lock, queue, outbox, cmd,
                   can_store, advVars, running, delivered, viewVars,
                   ghostVars, burst>>

\* serde_json::to_string(&offer).expect("Failed to serialize") on Err
StorageEncodeFails ==
    /\ running
    /\ proc_pc = "store_publish"
    /\ proc_pc' = "dead"
    /\ UNCHANGED <<config, partial_view, node, lock, queue, outbox, cmd,
                   can_store, advVars, running, delivered, viewVars,
                   ghostVars, burst>>

NextEncodeFails ==
    \/ Next
    \/ TaskEncodeFails
    \/ StorageEncodeFails

EncodeFailureSpec == Init /\ [][NextEncodeFails]_vars

(***************************************************************************)
(* Properties.                                                             *)
(***************************************************************************)
Range(f) == { f[i] : i \in DOMAIN f }

RECURSIVE SumCpu(_)
SumCpu(entries) ==
    IF entries = <<>> THEN 0
    ELSE Head(entries).cpu_cores + SumCpu(Tail(entries))

RECURSIVE SumGb(_)
SumGb(sizes) == IF sizes = <<>> THEN 0 ELSE Head(sizes) + SumGb(Tail(sizes))

\* The TaskResults published so far.
ResultsPublished ==
    { i \in DOMAIN outbox : Decode(outbox[i]).type = "TaskResult" }

\* The TaskRequests admitted so far: those answered and the one in flight.
Admitted ==
    Cardinality(ResultsPublished)
    + (IF proc_pc \in {"task_push", "task_exec", "task_publish"} THEN 1 ELSE 0)

\* C1: when N TaskRequests of c > 0 cpu_cores each arrive together and
\* N * c exceeds the configured CPU C, at most floor(C / c) of them are
\* admitted and available_cpu is not negative.
C1_NoOverAdmission ==
    (burst # NoBurst /\ burst.c > 0 /\ burst.n * burst.c > max_cpu_percent)
        => /\ Admitted <= max_cpu_percent \div burst.c
           /\ node.available_cpu >= 0

\* C2: available_cpu and available_storage are never negative (the unsigned
\* counters never underflow), whatever the interleaving.
C2_NeverNegative ==
    /\ node.available_cpu >= 0
    /\ node.available_storage >= 0

\* A task holds the whole CPU and all the storage is granted.
C2_Witness ==
    /\ node.available_cpu = 0
    /\ Len(node.tasks) = 1
    /\ node.available_storage = 0
    /\ Len(node.stored_files) = 1

\* C3: outside the processor's critical sections, available_cpu plus the
\* cpu_cores deducted for the entries of the task list is the configured
\* CPU, and available_storage plus the size_gb deducted for the entries of
\* stored_files is the configured storage.
C3_CapacityAccounting ==
    lock # "proc" =>
        /\ Len(task_cpu) = Len(node.tasks)
        /\ \A i \in DOMAIN task_cpu : task_cpu[i].task_id = node.tasks[i]
        /\ node.available_cpu + SumCpu(task_cpu) = max_cpu_percent
        /\ node.available_cpu <= max_cpu_percent
        /\ Len(file_gb) = Len(node.stored_files)
        /\ node.available_storage + SumGb(file_gb) = max_storage_gb

\* A task has been released again while a file stays stored.
C3_Witness ==
    /\ lock = "free"
    /\ Cardinality(ResultsPublished) = 1
    /\ proc_pc = "recv"
    /\ node.tasks = <<>>
    /\ Len(node.stored_files) = 1
    /\ node.available_storage < max_storage_gb

\* The processor is between the admission of cmd and its release.
InFlight(pc) == pc \in {"task_exec", "task_publish", "task_release"}

PublishedResult(t) ==
    Encode(TaskResult(t, TRUE, "Task completed successfully")) \in Range(outbox)

\* C4: a TaskRequest t of c cpu_cores admitted with a CPU available and no
\* active task leaves available_cpu = a - c and the active tasks <<t>>; these
\* stay so while it executes; when it has completed, a TaskResult of t with
\* success = true has been published, c has been added back (so a CPU are
\* available again) and no task is active.
C4_Step ==
    /\ (proc_pc = "task_admit" /\ proc_pc' = "task_push" /\ node.tasks = <<>>)
           => /\ node'.available_cpu = node.available_cpu - cmd.cpu_cores
              /\ node'.tasks = <<>>
    /\ (proc_pc = "task_push" /\ proc_pc' = "task_exec" /\ node.tasks = <<>>)
           => /\ node'.available_cpu = node.available_cpu
              /\ node'.tasks = <<cmd.task_id>>
    /\ (InFlight(proc_pc) /\ InFlight(proc_pc'))
           => /\ node'.available_cpu = node.available_cpu
              /\ node'.tasks = node.tasks
              /\ cmd' = cmd
    /\ (proc_pc = "task_release" /\ proc_pc' = "task_retain")
           => /\ node'.available_cpu = node.available_cpu + cmd.cpu_cores
              /\ PublishedResult(cmd.task_id)
    /\ (proc_pc = "task_retain" /\ proc_pc' = "recv" /\ node.tasks = <<cmd.task_id>>)
           => /\ node'.available_cpu = node.available_cpu
              /\ node'.tasks = <<>>
              /\ PublishedResult(cmd.task_id)

\* C4: every step keeps the admission, execution and completion facts of C4_Step.
C4_AdmitThenComplete == [][C4_Step]_vars

\* t1 of 1 cpu_cores has completed: its result is out, the CPU is whole again
\* and no task is active.
C4_Witness ==
    /\ proc_pc = "recv"
    /\ outbox = <<Encode(TaskResult("t1", TRUE, "Task completed successfully"))>>
    /\ node.available_cpu = max_cpu_percent
    /\ node.tasks = <<>>
    /\ delivered = 1

\* C5: when the TaskResult of t is published, the CPU reserved for t has been
\* added back and t is no longer in the task list.
C5_PublishStep ==
    (proc_pc = "task_publish" /\ outbox' # outbox)
        => /\ cmd.task_id \notin Range(node.tasks)
           /\ \A i \in DOMAIN task_cpu : task_cpu[i].task_id # cmd.task_id

\* C5: every step that publishes a TaskResult finds the task already released.
C5_ReleasePrecedesResult == [][C5_PublishStep]_vars

\* C6: while a task executes, the processor decides the next queued
\* TaskRequest of another task_id that fits in available_cpu.
C6_ExecutionNotSerialized ==
    ( /\ running
      /\ proc_pc = "task_exec"
      /\ queue # <<>>
      /\ Head(queue).type = "TaskRequest"
      /\ Head(queue).task_id # cmd.task_id
      /\ Head(queue).cpu_cores <= node.available_cpu )
        => ENABLED ProcRecv

\* C7: while the processor waits for a task's execution or publishes, the
\* mutex is not held, so the advertisement task, the HTTP handler and the
\* operator commands take it without waiting for the task.
C7_LockFreeWhileExecuting ==
    /\ proc_pc \in {"task_exec", "task_publish", "store_publish"} => lock = "free"
    /\ (running /\ proc_pc = "task_exec" /\ adv_pc = "snapshot") => ENABLED AdvSnapshot

\* The advertisement task has taken its snapshot during an execution.
C7_Witness ==
    /\ proc_pc = "task_exec"
    /\ adv_pc = "publish"
    /\ resource_offer.cpu_cores < max_cpu_percent

\* ceil(size_bytes / 1 GiB) with a minimum of 1, for sizes below 2^46.
CeilGb(s) ==
    IF s.q_lo = 0 /\ s.rem = 0 THEN 1
    ELSE s.q_lo + (IF s.rem > 0 THEN 1 ELSE 0)

\* The processor decides the StorageRequest in cmd in this step.
StorageDecision == proc_pc = "store_reserve" /\ proc_pc' \in {"store_push", "store_publish"}

StorageGranted == proc_pc = "store_reserve" /\ proc_pc' = "store_push"

\* C8: a StorageRequest is granted iff available_storage >= size_gb with
\* size_gb = ceil(size_bytes / 1 GiB), at least 1, and a grant deducts
\* exactly size_gb (stated for the sizes below 2^46 bytes, whose quotient
\* the narrowing to 32 bits keeps).
C8_Step ==
    (StorageDecision /\ cmd.size_bytes.q_hi = 0)
        => /\ StorageGranted <=> node.available_storage >= CeilGb(cmd.size_bytes)
           /\ StorageGranted =>
                  node'.available_storage
                      = node.available_storage - CeilGb(cmd.size_bytes)

\* C8: every storage decision follows the ceil formula of C8_Step.
C8_CeilAdmission == [][C8_Step]_vars

BelowOneGiB(s) == s.q_hi = 0 /\ s.q_lo = 0
BetweenOneAndTwoGiB(s) == s.q_hi = 0 /\ s.q_lo = 1 /\ s.rem > 0

\* C9: a granted StorageRequest of less than 1 GiB (0 bytes included) takes
\* exactly 1 GB from available_storage, one of more than 1 GiB and less than
\* 2 GiB exactly 2 GB, and the file_id is then recorded.
C9_Step ==
    /\ (StorageGranted /\ BelowOneGiB(cmd.size_bytes))
           => node'.available_storage = node.available_storage - 1
    /\ (StorageGranted /\ BetweenOneAndTwoGiB(cmd.size_bytes))
           => node'.available_storage = node.available_storage - 2
    /\ (proc_pc = "store_push" /\ proc_pc' = "store_publish")
           => /\ node'.stored_files = Append(node.stored_files, cmd.file_id)
              /\ node'.available_storage = node.available_storage

\* C9: every storage grant deducts the amounts of C9_Step.
C9_RoundingPoints == [][C9_Step]_vars

\* A request of 1 GiB + 1 bytes has just been granted 2 GB.
C9_Witness ==
    /\ proc_pc = "store_push"
    /\ cmd.size_bytes = Bytes(0, 1, 1)
    /\ node.available_storage = max_storage_gb - 2

\* The size_gb the handler computes exceeds the available storage.
StorageExceeds(s) ==
    \/ ~U32FitsInt(SizeGb(s))
    \/ U32Val(SizeGb(s)) > node.available_storage

\* C10: the step that decides a TaskRequest of more cpu_cores than
\* available_cpu, or a StorageRequest whose size_gb exceeds
\* available_storage, and the steps that end its handling, change no field of
\* the ledger.
C10_Step ==
    /\ (proc_pc = "task_admit" /\ proc_pc' # proc_pc
            /\ cmd.cpu_cores > node.available_cpu)
           => (node' = node /\ proc_pc' = "recv" /\ outbox' = outbox)
    /\ (proc_pc = "store_reserve" /\ proc_pc' # proc_pc
            /\ StorageExceeds(cmd.size_bytes))
           => (node' = node /\ proc_pc' = "store_publish" /\ ~can_store')
    /\ (proc_pc = "store_publish" /\ proc_pc' # proc_pc) => node' = node

StorageArm == {"store_reserve", "store_push", "store_publish"}

C11_Step ==
    /\ (proc_pc \in StorageArm /\ proc_pc' \notin StorageArm) =>
           /\ proc_pc = "store_publish"
           /\ outbox' = Append(outbox,
                  Encode(StorageOffer(cmd.file_id, LocalPeerId, can_store)))
    /\ (proc_pc \in StorageArm /\ proc_pc' \in StorageArm
            /\ proc_pc' # proc_pc) => outbox' = outbox
    /\ (proc_pc = "store_reserve" /\ proc_pc' = "store_publish") =>
           (~can_store' /\ node' = node)
    /\ (proc_pc = "store_push" /\ proc_pc' = "store_publish") =>
           /\ can_store'
           /\ node'.stored_files = Append(node.stored_files, cmd.file_id)
           /\ Len(file_gb') = Len(node'.stored_files)

C11_OneOfferPerStorageRequest == [][C11_Step]_vars

(***************************************************************************)
(* C12: each time the advertisement interval elapses the advertisement     *)
(* task takes one snapshot of the ledger (cpu, memory, storage, bandwidth, *)
(* node id as they are at that instant, reserved capacity included) and    *)
(* broadcasts exactly one ResourceOffer carrying that snapshot; nothing    *)
(* else broadcasts a ResourceOffer.                                        *)
(***************************************************************************)
C12_Step ==
    /\ (adv_pc = "snapshot" /\ adv_pc' # adv_pc) =>
           /\ adv_pc' = "publish"
           /\ resource_offer' = Snapshot(node)
    /\ (adv_pc = "publish" /\ adv_pc' # adv_pc) =>
           /\ adv_pc' = "sleep"
           /\ outbox' = Append(outbox, Encode(resource_offer))
    /\ (outbox' # outbox /\ outbox'[Len(outbox')].json.type = "ResourceOffer")
           => adv_pc = "publish"

C12_OneOfferPerInterval == [][C12_Step]_vars

(***************************************************************************)
(* C13: the node's peer set tracks discovery: a peer that was discovered   *)
(* and has not expired since is a member, no other peer is, and the peer   *)
(* count that `peers`, `status` and GET /api/node show is the number of    *)
(* such peers.                                                             *)
(***************************************************************************)
C13_PeerSetTracksDiscovery ==
    /\ node.peers = partial_view
    /\ Output("peers", node).peers = Cardinality(partial_view)
    /\ Output("status", node).peers = Cardinality(partial_view)
    /\ NodeJson(node).peers = Cardinality(partial_view)

(***************************************************************************)
(* C14: delivering a payload that does not decode as a command drops it:   *)
(* nothing is put on the queue, no ledger field changes, nothing is        *)
(* broadcast, and main's loop and the processor are where they were, so a  *)
(* valid message delivered later is still queued and processed.            *)
(***************************************************************************)
C14_Step ==
    \A p \in Malformed :
        FabricMessage(p) =>
            /\ queue' = queue
            /\ node' = node
            /\ outbox' = outbox
            /\ running' = running
            /\ procVars' = procVars
            /\ lock' = lock

C14_MalformedDropped == [][C14_Step]_vars

\* One payload was dropped and the one TaskRequest delivered was processed.
C14_Witness ==
    /\ delivered = 2
    /\ burst # NoBurst
    /\ burst.n = 1
    /\ queue = <<>>
    /\ proc_pc = "recv"
    /\ PublishedResult("t1")
    /\ node.tasks = <<>>

(***************************************************************************)
(* C15: when encoding the outbound TaskResult or StorageOffer fails, only  *)
(* that message is lost: nothing is broadcast for it and the processor     *)
(* goes on, for a task to the release of the CPU reserved for it, for a    *)
(* storage request to the next command.                                    *)
(***************************************************************************)
C15_Step ==
    /\ TaskEncodeFails => (outbox' = outbox /\ proc_pc' = "task_release")
    /\ StorageEncodeFails => (outbox' = outbox /\ proc_pc' = "recv")

C15_EncodeFailureSkipsMessage == [][C15_Step]_vars

(***************************************************************************)
(* C16: when the processor takes a ResourceOffer, a TaskResult or a        *)
(* StorageOffer from the queue (one of this node's own broadcasts come     *)
(* back included), no ledger field changes, nothing is broadcast and the   *)
(* processor is back at the queue, each time such a command is delivered.  *)
(***************************************************************************)
ObserveOnly == {"ResourceOffer", "TaskResult", "StorageOffer"}

C16_Step ==
    (ProcRecv /\ Head(queue).type \in ObserveOnly) =>
        /\ node' = node
        /\ outbox' = outbox
        /\ lock' = lock
        /\ proc_pc' = "recv"
        /\ ghostVars' = ghostVars

C16_ObserveOnly == [][C16_Step]_vars

\* Two commands were delivered and taken, not both TaskRequests, and the
\* ledger and the fabric are as they were at the start.
C16_Witness ==
    /\ delivered = 2
    /\ burst = NoBurst
    /\ queue = <<>>
    /\ proc_pc = "recv"
    /\ outbox = <<>>
    /\ node.available_cpu = max_cpu_percent
    /\ node.available_storage = max_storage_gb
    /\ node.tasks = <<>>
    /\ node.stored_files = <<>>

(***************************************************************************)
(* C17: main's loop ends on `quit` and on the end of the input stream,     *)
(* whatever the processor is doing; it ends on no other operator line:     *)
(* `help`, `peers`, `resources`, `status` and an unrecognized line leave   *)
(* the loop running and change no ledger field.                            *)
(***************************************************************************)
C17_Step ==
    /\ (OperatorQuit \/ OperatorEof) => ~running'
    /\ \A line \in OperatorLines \ {"quit"} :
           (OperatorLine(line) \/ OperatorPanic(line)) =>
               (running' /\ node' = node)

C17_LoopLifecycle == [][C17_Step]_vars

(***************************************************************************)
(* C18: what the advertisement task, GET /api/node and the `resources`     *)
(* and `status` commands read is the ledger of one state, taken while no   *)
(* critical section of the processor is open; no reply shows CPU deducted  *)
(* for a task not yet in the list, CPU restored for a task still in the    *)
(* list, or storage deducted for a file not yet in stored_files.           *)
(***************************************************************************)
Torn(r) ==
    \/ (r.cpu < max_cpu_percent /\ r.tasks = 0)
    \/ (r.tasks > 0 /\ r.cpu = max_cpu_percent)
    \/ (r.storage_gb < max_storage_gb /\ r.files = 0)

C18_Step ==
    /\ http_reply'.kind = "json" => ~Torn(http_reply')
    /\ (http_reply' # http_reply /\ http_reply'.kind = "json") =>
           (lock = "free" /\ http_reply' = NodeJson(node))
    /\ resource_offer' # resource_offer =>
           (lock = "free" /\ resource_offer' = Snapshot(node))
    /\ (console' # console /\ console'.kind \in {"resources", "status"}) =>
           (lock = "free" /\ console' = Output(console'.kind, node))

C18_SnapshotConsistency == [][C18_Step]_vars

\* A reply taken while a task executes: its CPU is deducted and it is listed.
C18_Witness ==
    /\ http_reply.kind = "json"
    /\ http_reply.tasks = 1
    /\ http_reply.cpu < max_cpu_percent
    /\ proc_pc = "task_exec"

(***************************************************************************)
(* C19: over the whole 64-bit range of size_bytes a StorageRequest is      *)
(* granted only if size_bytes does not exceed available_storage GiB: the   *)
(* narrowing of size_bytes / 2^30 to 32 bits and the + 1 after it never    *)
(* make an oversized file pass with little or nothing deducted.            *)
(***************************************************************************)
\* size_bytes > a * 2^30
BytesExceedGiB(s, a) ==
    \/ s.q_hi > 0
    \/ s.q_lo > a
    \/ (s.q_lo = a /\ s.rem > 0)

C19_Step ==
    StorageGranted => ~BytesExceedGiB(cmd.size_bytes, node.available_storage)

C19_SoundOver64Bits == [][C19_Step]_vars

(***************************************************************************)
(* C20: while main's loop runs and the processor is scheduled fairly, an   *)
(* admitted TaskRequest leads to its TaskResult on the fabric, with the    *)
(* CPU released and the task off the active list when the processor is     *)
(* back at the queue; its handling broadcasts exactly one TaskResult, of   *)
(* its task_id; a denied TaskRequest broadcasts nothing.                   *)
(***************************************************************************)
TaskArm == {"task_push", "task_exec", "task_publish", "task_release",
            "task_retain"}

AdmittedTask(t) == proc_pc \in TaskArm /\ cmd.task_id = t

Completed(t) ==
    /\ proc_pc = "recv"
    /\ PublishedResult(t)
    /\ t \notin Range(node.tasks)
    /\ node.available_cpu = max_cpu_percent

C20_Step ==
    /\ (proc_pc \in TaskArm /\ proc_pc' # proc_pc) =>
           IF proc_pc = "task_publish"
           THEN outbox' = Append(outbox, Encode(TaskResult(cmd.task_id, TRUE,
                                     "Task completed successfully")))
           ELSE outbox' = outbox
    /\ (proc_pc = "task_admit" /\ proc_pc' = "recv") => outbox' = outbox
    /\ (outbox' # outbox /\ outbox'[Len(outbox')].json.type = "TaskResult")
           => proc_pc = "task_publish"

C20_AdmittedLeadsToResult ==
    /\ [][C20_Step]_vars
    /\ \A t \in TaskIds : AdmittedTask(t) ~> (Completed(t) \/ ~running)

\* t2 was admitted and has completed: one result, its own, is out.
C20_Witness ==
    /\ running
    /\ Completed("t2")
    /\ Cardinality(ResultsPublished) = 1

====
